---- MODULE Spec2Model ----
(***************************************************************************)
(* Model of internal/api/client/streaming/stream.go: the streaming GET     *)
(* handler, the connection coordinator handleWSConn and its two pumps      *)
(* readFromWSConn and writeToWSConn.                                       *)
(*                                                                         *)
(* One request / one session is modelled.  The hub (processor.Stream()),   *)
(* the authorizer, the websocket peer and the clock are the environment.   *)
(*                                                                         *)
(* Timing model: time advances in whole units (Tick); the keepalive        *)
(* period m.dTicker is Interval units.  A select with a ready case and a   *)
(* frame write take no time at this granularity, so Tick is disabled       *)
(* while the outbound pump has something to do.                            *)
(***************************************************************************)
EXTENDS Integers, Sequences, FiniteSets, TLC

VARIABLES
    req,          \* the request: token and the stream, list and tag query values
    hPc,          \* StreamGETHandler position
    hResult,      \* how the handler ended
    openArg,      \* the stream type the handler passed to Open
    opened,       \* the hub has returned a session from Open
    StreamTypes,  \* stream.StreamTypes: the keys of the map
    Messages,     \* stream.Messages: channel content, oldest first
    hangupCloses, \* number of close(stream.Hangup) executed
    ctxDone,      \* ctx of handleWSConn is cancelled
    cancelledBy,  \* the pump whose deferred cancel() cancelled ctx
    cPc,          \* handleWSConn position
    connClosed,   \* wsConn.Close() has been called
    closeErrLogged, \* wsConn.Close() returned an error, which was logged
    rPc,          \* readFromWSConn position
    rExit,        \* why the read loop ended
    rErrLogged,   \* the read loop logged its read error at error level
    rMsg,         \* the control frame the read loop is applying
    rLocked,      \* the read loop holds the stream's lock
    wPc,          \* writeToWSConn position
    wCur,         \* the message received from stream.Messages, being written
    wExit,        \* why the write loop ended
    tickerOn,     \* pinger is running (created, not stopped)
    left,         \* time units until pinger fires next
    tickC,        \* number of ticks buffered in pinger.C (0 or 1)
    staleTicks,   \* build: Reset leaves a buffered tick in pinger.C
    enq,          \* history: number of messages the hub has enqueued
    wire,         \* history: frames written to the transport, in order
    sinceFrame,   \* history: time since the last frame written (or pinger creation)
    wLate,        \* history: a select took an event or a tick with ctx already done
    frameLog      \* history: the last control frames handled, with the set before each

vars == <<req, hPc, hResult, openArg, opened, StreamTypes, Messages,
          hangupCloses, ctxDone, cancelledBy, cPc, connClosed, closeErrLogged,
          rPc, rExit, rErrLogged, rMsg, rLocked, wPc, wCur, wExit, tickerOn, left,
          tickC, staleTicks, enq, wire, sinceFrame, wLate, frameLog>>

hVars == <<req, hPc, hResult, openArg, opened>>
cVars == <<cPc, connClosed, closeErrLogged>>
rVars == <<rPc, rExit, rErrLogged, rMsg, rLocked>>
wVars == <<wPc, wCur, wExit>>
tVars == <<tickerOn, left, tickC>>
histVars == <<enq, wire, sinceFrame>>

----------------------------------------------------------------------------
(* Bounds and constants *)

\* number of messages the hub enqueues
MaxMsgs == 2
\* number of ping frames after which the clock stops
MaxPings == 2
\* m.dTicker in time units
Interval == 2

\* a ping control frame on the wire (messages are 1..MaxMsgs)
Ping == 0

\* marks a field that a request or frame does not carry
Absent == "<absent>"

----------------------------------------------------------------------------
(* Pure helpers *)

\* streampkg.AllStatusTimelines: the stream names a control frame may carry
AllStatusTimelines ==
    {"public", "public:local", "user", "user:notification", "direct", "list", "hashtag"}

\* the read loop is not applying any frame
NoMsg == <<>>

\* a control frame as decoded by ReadJSON into map[string]string: a function
\* whose domain is the set of fields present
MkMsg(t, s, l) ==
    [k \in (IF t = Absent THEN {} ELSE {"type"})
           \cup (IF s = Absent THEN {} ELSE {"stream"})
           \cup (IF l = Absent THEN {} ELSE {"list"})
       |-> CASE k = "type" -> t
             [] k = "stream" -> s
             [] OTHER -> l]

Has(msg, field) == field \in DOMAIN msg

\* a stream type in which the tag is looked at before the list
InitialStreamTypeTagFirst(stream, list, tag) ==
    IF tag # "" THEN stream \o ":" \o tag
    ELSE IF list # "" THEN stream \o ":" \o list
    ELSE stream

\* the initial stream type StreamGETHandler builds from the query parameters
InitialStreamType(stream, list, tag) ==
    IF list # "" THEN stream \o ":" \o list
    ELSE IF tag # "" THEN stream \o ":" \o tag
    ELSE stream

\* the frame passes the field and allow-list checks of the read loop
Accepted(msg) ==
    /\ Has(msg, "type")
    /\ Has(msg, "stream")
    /\ msg["stream"] \in AllStatusTimelines

\* a key to which only a non-empty list value is appended
UpdateKeyNonEmptyList(msg) ==
    IF Has(msg, "list") /\ msg["list"] # ""
      THEN msg["stream"] \o ":" \o msg["list"]
      ELSE msg["stream"]

\* updateStream after the optional list qualifier has been appended
UpdateKey(msg) ==
    IF Has(msg, "list") THEN msg["stream"] \o ":" \o msg["list"] ELSE msg["stream"]

\* a subscribe that toggles the membership instead of setting it
SubscribeToggle(types, key) ==
    IF key \in types THEN types \ {key} ELSE types \cup {key}

\* stream.StreamTypes[updateStream] = true
Subscribe(types, key) == types \cup {key}

\* a delete that clears the whole map
UnsubscribeAll(types, key) == {}

\* delete(stream.StreamTypes, updateStream)
Unsubscribe(types, key) == types \ {key}

\* the effect of one successfully read control frame on stream.StreamTypes
UpdateStreamTypes(types, msg) ==
    IF ~Has(msg, "type") THEN types
    ELSE IF ~Has(msg, "stream") THEN types
    ELSE IF msg["stream"] \notin AllStatusTimelines THEN types
    ELSE CASE msg["type"] = "subscribe" -> Subscribe(types, UpdateKey(msg))
           [] msg["type"] = "unsubscribe" -> Unsubscribe(types, UpdateKey(msg))
           [] OTHER -> types

\* a receive that takes the newest message
RecvNewest(q) == q[Len(q)]

\* channel receive: the oldest message of stream.Messages
Recv(q) == Head(q)

Last(s) == s[Len(s)]

NumPings(w) == Cardinality({i \in 1..Len(w) : w[i] = Ping})

\* the event frames of the wire, in the order written
Events(w) == SelectSeq(w, LAMBDA f : f # Ping)

\* the close codes a websocket close error can carry
CloseCodes ==
    {"CloseNormalClosure", "CloseGoingAway", "CloseNoStatusReceived",
     "CloseAbnormalClosure", "CloseProtocolError"}

\* the close codes the read loop passes to IsUnexpectedCloseError
ExpectedCloseCodes == {"CloseNormalClosure", "CloseGoingAway", "CloseNoStatusReceived"}

\* websocket.IsUnexpectedCloseError: err is a close error whose code is not
\* one of the expected codes; an error that is not a close error is not one
IsUnexpectedCloseError(err, expectedCodes) ==
    err \in CloseCodes /\ err \notin expectedCodes

\* cancel(): idempotent; records the pump that cancelled first
Cancel(who) ==
    /\ ctxDone' = TRUE
    /\ cancelledBy' = IF ctxDone THEN cancelledBy ELSE who

----------------------------------------------------------------------------
(* Inputs *)

ReqTokens == {"", "tok"}
ReqStreams == {"", "user", "hashtag", "list"}
ReqLists == {"", "x", "01H3"}
ReqTags == {"", "t", "foo"}

MkReq(token, stream, list, tag) ==
    [token |-> token, stream |-> stream, list |-> list, tag |-> tag]

\* every request over these values, used to exercise the handler alone
WideRequests ==
    {MkReq(k, s, l, t) : k \in ReqTokens, s \in ReqStreams, l \in ReqLists, t \in ReqTags}

\* the requests followed through a whole connection
Requests ==
    { MkReq("tok", "user", "", ""),
      MkReq("", "", "x", "t") }

\* control frames the peer sends on a live connection
FrameTypes == {Absent, "subscribe", "unsubscribe", "bogus"}
FrameStreams == {Absent, "user", "nope"}
FrameLists == {Absent}
Frames == {MkMsg(t, s, l) : t \in FrameTypes, s \in FrameStreams, l \in FrameLists}

\* errors ReadJSON returns: a close error, named by its code, a network
\* error, or a frame that does not decode into a map of strings
ReadErrors == {"CloseGoingAway", "CloseAbnormalClosure", "netError"}
WideReadErrors == CloseCodes \cup {"netError", "jsonError"}

\* the wider set of control frames used to exercise the frame handling alone
WideStreams == {Absent, "user", "nope"}
WideLists == {Absent, "", "x"}
WideFrames == {MkMsg(t, s, l) : t \in FrameTypes, s \in WideStreams, l \in WideLists}

----------------------------------------------------------------------------
(* Initial state: a request has arrived, nothing has run yet *)

Fresh ==
    /\ hPc = "auth"
    /\ hResult = "none"
    /\ openArg = Absent
    /\ opened = FALSE
    /\ StreamTypes = {}
    /\ Messages = <<>>
    /\ hangupCloses = 0
    /\ ctxDone = FALSE
    /\ cancelledBy = "none"
    /\ cPc = "idle"
    /\ connClosed = FALSE
    /\ closeErrLogged = FALSE
    /\ rPc = "idle"
    /\ rExit = "none"
    /\ rErrLogged = FALSE
    /\ rMsg = NoMsg
    /\ rLocked = FALSE
    /\ wPc = "idle"
    /\ wCur = 0
    /\ wExit = "none"
    /\ tickerOn = FALSE
    /\ left = Interval
    /\ tickC = 0
    /\ staleTicks \in BOOLEAN
    /\ enq = 0
    /\ wire = <<>>
    /\ sinceFrame = 0
    /\ wLate = FALSE
    /\ frameLog = <<>>

Init == req \in Requests /\ Fresh

----------------------------------------------------------------------------
(* The keepalive ticker (time.Ticker) *)

\* a ticker created with twice the period
TickerNewSlow ==
    /\ tickerOn' = TRUE
    /\ left' = 2 * Interval
    /\ tickC' = 0

\* time.NewTicker(m.dTicker)
TickerNew ==
    /\ tickerOn' = TRUE
    /\ left' = Interval
    /\ tickC' = 0

\* pinger.Reset(m.dTicker): the next tick comes a full period from now; a tick
\* already buffered in pinger.C stays there on builds with the buffered timer
\* channel and is discarded on the others
TickerReset ==
    /\ tickerOn' = TRUE
    /\ left' = Interval
    /\ tickC' = IF staleTicks THEN tickC ELSE 0

\* pinger.Stop()
TickerStop ==
    /\ tickerOn' = FALSE
    /\ left' = left
    /\ tickC' = IF staleTicks THEN tickC ELSE 0

\* the outbound pump has a step to take that takes no time
WriterBusy ==
    \/ wPc \in {"writeMsg", "writePing"}
    \/ wPc = "select" /\ (ctxDone \/ Messages # <<>> \/ tickC = 1)

\* one time unit passes; the ticker fires when its period has elapsed, and the
\* tick is dropped when pinger.C already holds one
Tick ==
    /\ tickerOn
    /\ ~WriterBusy
    /\ NumPings(wire) < MaxPings
    /\ sinceFrame' = IF sinceFrame > Interval THEN sinceFrame ELSE sinceFrame + 1
    /\ IF left > 1
         THEN left' = left - 1 /\ tickC' = tickC
         ELSE left' = Interval /\ tickC' = 1
    /\ UNCHANGED <<hVars, StreamTypes, Messages, hangupCloses, ctxDone, cancelledBy,
                   cVars, rVars, wVars, tickerOn, staleTicks, wLate, enq, wire,
                   frameLog>>

----------------------------------------------------------------------------
(* The hub *)

\* what the hub's Open can return for streamType: a session or an error,
\* whatever the stream type is
OpenOutcomes(streamType) == {"session", "error"}

\* the topic set of a session the hub's Open returns for streamType
OpenedTypes(streamType) == {streamType}

\* the hub sends a message into stream.Messages
Enqueue ==
    /\ opened
    /\ enq < MaxMsgs
    /\ enq' = enq + 1
    /\ Messages' = Append(Messages, enq + 1)
    /\ UNCHANGED <<hVars, StreamTypes, hangupCloses, ctxDone, cancelledBy, cVars,
                   rVars, wVars, tVars, staleTicks, wLate, wire, sinceFrame, frameLog>>

----------------------------------------------------------------------------
(* StreamGETHandler *)

\* an authentication failure that writes the error and, lacking the return,
\* goes on to open the stream
HandlerAuthFailNoReturn ==
    /\ hPc = "auth"
    /\ hResult' = IF req.token # "" THEN "authorizeError" ELSE "unauthorized"
    /\ hPc' = "open"
    /\ UNCHANGED <<req, openArg, opened, StreamTypes, Messages, hangupCloses, ctxDone,
                   cancelledBy, cVars, rVars, wVars, tVars, staleTicks, wLate, histVars,
                   frameLog>>

\* the request's token is rejected by Authorize or, when no token is given,
\* oauth.Authed fails: the error is written and the handler returns
HandlerAuthFail ==
    /\ hPc = "auth"
    /\ hResult' = IF req.token # "" THEN "authorizeError" ELSE "unauthorized"
    /\ hPc' = "returned"
    /\ UNCHANGED <<req, openArg, opened, StreamTypes, Messages, hangupCloses,
                   ctxDone, cancelledBy, cVars, rVars, wVars, tVars, staleTicks,
                   wLate, histVars, frameLog>>

\* the token, or the oauth fallback, yields an account
HandlerAuthOK ==
    /\ hPc = "auth"
    /\ hPc' = "open"
    /\ UNCHANGED <<req, hResult, openArg, opened, StreamTypes, Messages,
                   hangupCloses, ctxDone, cancelledBy, cVars, rVars, wVars, tVars,
                   staleTicks, wLate, histVars, frameLog>>

\* processor.Stream().Open, called with the stream type built from the query
\* parameters, returns an error
HandlerOpenFail ==
    /\ hPc = "open"
    /\ openArg' = InitialStreamType(req.stream, req.list, req.tag)
    /\ "error" \in OpenOutcomes(openArg')
    /\ hPc' = "returned"
    /\ hResult' = "openError"
    /\ UNCHANGED <<req, opened, StreamTypes, Messages, hangupCloses, ctxDone,
                   cancelledBy, cVars, rVars, wVars, tVars, staleTicks, wLate,
                   histVars, frameLog>>

\* processor.Stream().Open returns a session for the stream type built from
\* the query parameters
HandlerOpenOK ==
    /\ hPc = "open"
    /\ openArg' = InitialStreamType(req.stream, req.list, req.tag)
    /\ "session" \in OpenOutcomes(openArg')
    /\ StreamTypes' = OpenedTypes(openArg')
    /\ opened' = TRUE
    /\ hPc' = "upgrade"
    /\ UNCHANGED <<req, hResult, Messages, hangupCloses, ctxDone, cancelledBy, cVars,
                   rVars, wVars, tVars, staleTicks, wLate, histVars, frameLog>>

\* handleWSConn up to its wait: context and pinger created, both pumps started
StartWSConn ==
    /\ cPc' = "wait"
    /\ rPc' = "loop"
    /\ wPc' = "select"
    /\ TickerNew
    /\ sinceFrame' = 0

\* a failed upgrade that closes the hangup signal and, lacking the return,
\* goes on to start handleWSConn
HandlerUpgradeFailNoReturn ==
    /\ hPc = "upgrade"
    /\ hangupCloses' = hangupCloses + 1
    /\ hPc' = "returned"
    /\ hResult' = "upgradeError"
    /\ StartWSConn
    /\ UNCHANGED <<req, openArg, opened, StreamTypes, Messages, ctxDone, cancelledBy,
                   connClosed, closeErrLogged, rExit, rErrLogged, rMsg, rLocked, wCur,
                   wExit, staleTicks, wLate, enq,
                   wire, frameLog>>

\* the upgrade fails: the handler closes the hangup signal and returns
HandlerUpgradeFail ==
    /\ hPc = "upgrade"
    /\ hangupCloses' = hangupCloses + 1
    /\ hPc' = "returned"
    /\ hResult' = "upgradeError"
    /\ UNCHANGED <<req, openArg, opened, StreamTypes, Messages, ctxDone,
                   cancelledBy, cVars, rVars, wVars, tVars, staleTicks, wLate,
                   histVars, frameLog>>

\* the upgrade succeeds: handleWSConn is started and the handler returns
HandlerUpgradeOK ==
    /\ hPc = "upgrade"
    /\ hPc' = "returned"
    /\ hResult' = "upgraded"
    /\ StartWSConn
    /\ UNCHANGED <<req, openArg, opened, StreamTypes, Messages, hangupCloses,
                   ctxDone, cancelledBy, connClosed, closeErrLogged, rExit,
                   rErrLogged, rMsg, rLocked, wCur, wExit, staleTicks, wLate, enq,
                   wire, frameLog>>

----------------------------------------------------------------------------
(* handleWSConn after the pumps are started *)

\* a coordinator that does not wait for the scope to be cancelled
CoordNoWait ==
    /\ cPc = "wait"
    /\ cPc' = "close"
    /\ UNCHANGED <<hVars, StreamTypes, Messages, hangupCloses, ctxDone, cancelledBy,
                   connClosed, closeErrLogged, rVars, wVars, tVars, staleTicks,
                   wLate, histVars, frameLog>>

\* a coordinator that also wakes when the pinger has ticked
CoordWaitOrTick ==
    /\ cPc = "wait"
    /\ (ctxDone \/ tickC = 1)
    /\ cPc' = "close"
    /\ UNCHANGED <<hVars, StreamTypes, Messages, hangupCloses, ctxDone, cancelledBy,
                   connClosed, closeErrLogged, rVars, wVars, tVars, staleTicks,
                   wLate, histVars, frameLog>>

\* <-ctx.Done()
CoordWait ==
    /\ cPc = "wait"
    /\ ctxDone
    /\ cPc' = "close"
    /\ UNCHANGED <<hVars, StreamTypes, Messages, hangupCloses, ctxDone, cancelledBy,
                   connClosed, closeErrLogged, rVars, wVars, tVars, staleTicks,
                   wLate, histVars, frameLog>>

\* a coordinator that returns when closing the transport fails
CoordCloseConnOrReturn ==
    /\ cPc = "close"
    /\ connClosed' = TRUE
    /\ \E err \in BOOLEAN :
         /\ closeErrLogged' = err
         /\ cPc' = IF err THEN "done" ELSE "hangup"
    /\ UNCHANGED <<hVars, StreamTypes, Messages, hangupCloses, ctxDone, cancelledBy,
                   rVars, wVars, tVars, staleTicks, wLate, histVars, frameLog>>

\* a coordinator that leaves the transport open
CoordSkipCloseConn ==
    /\ cPc = "close"
    /\ cPc' = "hangup"
    /\ UNCHANGED <<hVars, StreamTypes, Messages, hangupCloses, ctxDone, cancelledBy,
                   connClosed, closeErrLogged, rVars, wVars, tVars, staleTicks,
                   wLate, histVars, frameLog>>

\* wsConn.Close(): the transport is closed whether or not Close reports an
\* error; an error is only logged
CoordCloseConn ==
    /\ cPc = "close"
    /\ connClosed' = TRUE
    /\ \E err \in BOOLEAN : closeErrLogged' = err
    /\ cPc' = "hangup"
    /\ UNCHANGED <<hVars, StreamTypes, Messages, hangupCloses, ctxDone, cancelledBy,
                   rVars, wVars, tVars, staleTicks, wLate, histVars, frameLog>>

\* close(stream.Hangup)
CoordCloseHangup ==
    /\ cPc = "hangup"
    /\ hangupCloses' = hangupCloses + 1
    /\ cPc' = "stop"
    /\ UNCHANGED <<hVars, StreamTypes, Messages, ctxDone, cancelledBy, connClosed,
                   closeErrLogged, rVars, wVars, tVars, staleTicks, wLate, histVars,
                   frameLog>>

\* pinger.Stop(), then handleWSConn returns
CoordStopTicker ==
    /\ cPc = "stop"
    /\ TickerStop
    /\ cPc' = "done"
    /\ UNCHANGED <<hVars, StreamTypes, Messages, hangupCloses, ctxDone, cancelledBy,
                   connClosed, closeErrLogged, rVars, wVars, staleTicks, wLate,
                   histVars, frameLog>>

----------------------------------------------------------------------------
(* readFromWSConn, with the deferred cancel() of its goroutine *)

\* top of the loop: select on ctx.Done() with a default
ReaderLoop ==
    /\ rPc = "loop"
    /\ IF ctxDone
         THEN /\ rPc' = "done"
              /\ rExit' = "ctx"
              /\ rErrLogged' = rErrLogged
              /\ Cancel("reader")
         ELSE /\ rPc' = "read"
              /\ UNCHANGED <<rExit, rErrLogged, ctxDone, cancelledBy>>
    /\ UNCHANGED <<rMsg, rLocked, hVars, StreamTypes, Messages, hangupCloses, cVars,
                   wVars, tVars, staleTicks, wLate, histVars, frameLog>>

\* ReadJSON returns the error err (the peer closed or broke the connection,
\* sent something that does not decode, or the coordinator closed the
\* connection): the error is logged at error level when it is an unexpected
\* close error, the loop ends and the deferred cancel() runs
ReadFail(err) ==
    /\ rPc = "read"
    /\ rExit' = err
    /\ rErrLogged' = IsUnexpectedCloseError(err, ExpectedCloseCodes)
    /\ rPc' = "done"
    /\ Cancel("reader")
    /\ UNCHANGED <<rMsg, rLocked>>

ReaderReadFail ==
    /\ \E err \in ReadErrors : ReadFail(err)
    /\ UNCHANGED <<hVars, StreamTypes, Messages, hangupCloses, cVars, wVars, tVars,
                   staleTicks, wLate, histVars, frameLog>>

\* the frame passes every check and its type selects a case that changes
\* stream.StreamTypes
Updates(msg) == Accepted(msg) /\ msg["type"] \in {"subscribe", "unsubscribe"}

\* a read loop that gives up on a frame it does not understand
ReadMsgStrict(msg) ==
    /\ rPc = "read"
    /\ ~connClosed
    /\ UNCHANGED <<StreamTypes, rErrLogged>>
    /\ IF Updates(msg)
         THEN /\ ~rLocked
              /\ rLocked' = TRUE
              /\ rMsg' = msg
              /\ rPc' = "locked"
              /\ UNCHANGED <<rExit, ctxDone, cancelledBy>>
         ELSE /\ rPc' = "done"
              /\ rExit' = "malformed"
              /\ Cancel("reader")
              /\ UNCHANGED <<rMsg, rLocked>>

\* ReadJSON returns the control frame msg.  A frame that fails a check, or
\* whose type is neither subscribe nor unsubscribe, is dropped and the loop
\* continues; for the others the loop takes the stream's lock.  Once the
\* coordinator has closed the transport ReadJSON returns no further frame.
ReadMsg(msg) ==
    /\ rPc = "read"
    /\ ~connClosed
    /\ UNCHANGED <<StreamTypes, rExit, rErrLogged, ctxDone, cancelledBy>>
    /\ IF Updates(msg)
         THEN /\ ~rLocked
              /\ rLocked' = TRUE
              /\ rMsg' = msg
              /\ rPc' = "locked"
         ELSE /\ rPc' = "loop"
              /\ UNCHANGED <<rMsg, rLocked>>

\* an update that leaves the stream locked
ApplyMsgKeepLock ==
    /\ rPc = "locked"
    /\ StreamTypes' = UpdateStreamTypes(StreamTypes, rMsg)
    /\ rLocked' = rLocked
    /\ rMsg' = NoMsg
    /\ rPc' = "loop"
    /\ UNCHANGED <<rExit, rErrLogged, ctxDone, cancelledBy>>

\* with the lock held: the map insert or delete, then stream.Unlock()
ApplyMsg ==
    /\ rPc = "locked"
    /\ StreamTypes' = UpdateStreamTypes(StreamTypes, rMsg)
    /\ rLocked' = FALSE
    /\ rMsg' = NoMsg
    /\ rPc' = "loop"
    /\ UNCHANGED <<rExit, rErrLogged, ctxDone, cancelledBy>>

ReaderUpdate ==
    /\ ApplyMsg
    /\ UNCHANGED <<hVars, Messages, hangupCloses, cVars, wVars, tVars, staleTicks,
                   wLate, histVars, frameLog>>

ReaderReadMsg ==
    /\ \E msg \in Frames : ReadMsg(msg)
    /\ UNCHANGED <<hVars, Messages, hangupCloses, cVars, wVars, tVars, staleTicks,
                   wLate, histVars, frameLog>>

----------------------------------------------------------------------------
(* writeToWSConn, with the deferred cancel() of its goroutine *)

\* a select whose ctx.Done() case goes round the loop again
WriterSelectDoneContinue ==
    /\ wPc = "select"
    /\ ctxDone
    /\ UNCHANGED vars

\* select: case <-ctx.Done()
WriterSelectDone ==
    /\ wPc = "select"
    /\ ctxDone
    /\ wPc' = "done"
    /\ wExit' = "ctx"
    /\ Cancel("writer")
    /\ UNCHANGED <<hVars, StreamTypes, Messages, hangupCloses, cVars, rVars, wCur,
                   tVars, staleTicks, wLate, histVars, frameLog>>

\* select: case msg := <-stream.Messages
WriterSelectMsg ==
    /\ wPc = "select"
    /\ Messages # <<>>
    /\ wCur' = Recv(Messages)
    /\ Messages' = SelectSeq(Messages, LAMBDA m : m # Recv(Messages))
    /\ wPc' = "writeMsg"
    /\ wLate' = (wLate \/ ctxDone)
    /\ UNCHANGED <<hVars, StreamTypes, hangupCloses, ctxDone, cancelledBy, cVars,
                   rVars, wExit, tVars, staleTicks, histVars, frameLog>>

\* WriteJSON(msg) succeeds: the pinger is reset
WriterWriteMsgOK ==
    /\ wPc = "writeMsg"
    /\ ~connClosed
    /\ wire' = Append(wire, wCur)
    /\ sinceFrame' = 0
    /\ TickerReset
    /\ wCur' = 0
    /\ wPc' = "select"
    /\ UNCHANGED <<hVars, StreamTypes, Messages, hangupCloses, ctxDone, cancelledBy,
                   cVars, rVars, wExit, staleTicks, wLate, enq, frameLog>>

\* WriteJSON(msg) fails: the loop ends and the deferred cancel() runs
WriterWriteMsgFail ==
    /\ wPc = "writeMsg"
    /\ wCur' = 0
    /\ wPc' = "done"
    /\ wExit' = "msgErr"
    /\ Cancel("writer")
    /\ UNCHANGED <<hVars, StreamTypes, Messages, hangupCloses, cVars, rVars, tVars,
                   staleTicks, wLate, histVars, frameLog>>

\* select: case <-pinger.C
WriterSelectPing ==
    /\ wPc = "select"
    /\ tickC = 1
    /\ tickC' = 0
    /\ wPc' = "writePing"
    /\ wLate' = (wLate \/ ctxDone)
    /\ UNCHANGED <<hVars, StreamTypes, Messages, hangupCloses, ctxDone, cancelledBy,
                   cVars, rVars, wCur, wExit, tickerOn, left, staleTicks, histVars,
                   frameLog>>

\* WriteControl(PingMessage) succeeds: no reset, the loop continues
WriterWritePingOK ==
    /\ wPc = "writePing"
    /\ ~connClosed
    /\ wire' = Append(wire, Ping)
    /\ sinceFrame' = 0
    /\ wPc' = "select"
    /\ UNCHANGED <<hVars, StreamTypes, Messages, hangupCloses, ctxDone, cancelledBy,
                   cVars, rVars, wCur, wExit, tVars, staleTicks, wLate, enq, frameLog>>

\* a failed ping that is logged and followed by the next iteration
WriterWritePingFailContinue ==
    /\ wPc = "writePing"
    /\ wPc' = "select"
    /\ wExit' = "pingErr"
    /\ UNCHANGED <<hVars, StreamTypes, Messages, hangupCloses, ctxDone, cancelledBy,
                   cVars, rVars, wCur, tVars, staleTicks, wLate, histVars, frameLog>>

\* WriteControl(PingMessage) fails: the loop ends and the deferred cancel() runs
WriterWritePingFail ==
    /\ wPc = "writePing"
    /\ wPc' = "done"
    /\ wExit' = "pingErr"
    /\ Cancel("writer")
    /\ UNCHANGED <<hVars, StreamTypes, Messages, hangupCloses, cVars, rVars, wCur,
                   tVars, staleTicks, wLate, histVars, frameLog>>

----------------------------------------------------------------------------
(* The whole program *)

Handler ==
    \/ HandlerAuthFail
    \/ HandlerAuthOK
    \/ HandlerOpenFail
    \/ HandlerOpenOK
    \/ HandlerUpgradeFail
    \/ HandlerUpgradeOK

Coordinator ==
    \/ CoordWait
    \/ CoordCloseConn
    \/ CoordCloseHangup
    \/ CoordStopTicker

Reader ==
    \/ ReaderLoop
    \/ ReaderReadFail
    \/ ReaderReadMsg
    \/ ReaderUpdate

Writer ==
    \/ WriterSelectDone
    \/ WriterSelectMsg
    \/ WriterWriteMsgOK
    \/ WriterWriteMsgFail
    \/ WriterSelectPing
    \/ WriterWritePingOK
    \/ WriterWritePingFail

Next ==
    \/ Handler
    \/ Coordinator
    \/ Reader
    \/ Writer
    \/ Enqueue
    \/ Tick

Spec == Init /\ [][Next]_vars

\* Scheduling: the coordinator and both pumps are goroutines that run when
\* they can; a read on a transport the coordinator has closed returns an
\* error.  The peer, the hub and the clock owe nothing.
Fairness ==
    /\ WF_vars(Coordinator)
    /\ WF_vars(ReaderLoop)
    /\ WF_vars(connClosed /\ ReaderReadFail)
    /\ WF_vars(ReaderUpdate)
    /\ WF_vars(Writer)

FairSpec == Spec /\ Fairness

----------------------------------------------------------------------------
(* The handler alone, over every request *)

HandlerInit == req \in WideRequests /\ Fresh

HandlerSpec == HandlerInit /\ [][Handler]_vars

----------------------------------------------------------------------------
(* The inbound pump alone on a live connection, with the frames it handles *)
(* recorded: the last two control frames and the topic set before each.    *)

\* the connection right after a successful upgrade
FrameInit ==
    /\ req \in Requests
    /\ hPc = "returned"
    /\ hResult = "upgraded"
    /\ openArg = InitialStreamType(req.stream, req.list, req.tag)
    /\ opened = TRUE
    /\ StreamTypes = OpenedTypes(openArg)
    /\ Messages = <<>>
    /\ hangupCloses = 0
    /\ ctxDone = FALSE
    /\ cancelledBy = "none"
    /\ cPc = "wait"
    /\ connClosed = FALSE
    /\ closeErrLogged = FALSE
    /\ rPc = "loop"
    /\ rExit = "none"
    /\ rErrLogged = FALSE
    /\ rMsg = NoMsg
    /\ rLocked = FALSE
    /\ wPc = "select"
    /\ wCur = 0
    /\ wExit = "none"
    /\ tickerOn = TRUE
    /\ left = Interval
    /\ tickC = 0
    /\ staleTicks \in BOOLEAN
    /\ enq = 0
    /\ wire = <<>>
    /\ sinceFrame = 0
    /\ wLate = FALSE
    /\ frameLog = <<>>

\* the log keeps the two most recent frames
Logged(log, entry) ==
    IF Len(log) < 2 THEN Append(log, entry) ELSE <<log[2], entry>>

\* a frame is logged when its handling is complete: a dropped frame when it
\* is read, an applied one when the lock is released
FrameRead ==
    /\ \E msg \in WideFrames :
         /\ ReadMsg(msg)
         /\ frameLog' = IF Updates(msg)
                           THEN frameLog
                           ELSE Logged(frameLog, [msg |-> msg, before |-> StreamTypes])
    /\ UNCHANGED <<hVars, Messages, hangupCloses, cVars, wVars, tVars, staleTicks,
                   wLate, histVars>>

FrameUpdate ==
    /\ ApplyMsg
    /\ frameLog' = Logged(frameLog, [msg |-> rMsg, before |-> StreamTypes])
    /\ UNCHANGED <<hVars, Messages, hangupCloses, cVars, wVars, tVars, staleTicks,
                   wLate, histVars>>

FrameReadFail ==
    /\ \E err \in WideReadErrors : ReadFail(err)
    /\ UNCHANGED <<hVars, StreamTypes, Messages, hangupCloses, cVars, wVars, tVars,
                   staleTicks, wLate, histVars, frameLog>>

FrameNext ==
    \/ ReaderLoop
    \/ FrameRead
    \/ FrameUpdate
    \/ FrameReadFail

FrameSpec == FrameInit /\ [][FrameNext]_vars

----------------------------------------------------------------------------
(* Vocabulary of the claims about control frames *)

IsSubscribe(msg) == Accepted(msg) /\ msg["type"] = "subscribe"
IsUnsubscribe(msg) == Accepted(msg) /\ msg["type"] = "unsubscribe"

\* missing type, missing stream, stream outside the vocabulary, or a type
\* other than subscribe / unsubscribe
Malformed(msg) == ~IsSubscribe(msg) /\ ~IsUnsubscribe(msg)

ReadFailures == WideReadErrors

LastFrame == frameLog[Len(frameLog)]

----------------------------------------------------------------------------
(* Claims about control frames, checked under FrameSpec *)

\* C4: the inbound pump never inserts into the topic set a key outside the
\* allow-list vocabulary: whatever the last frame added is in AllStatusTimelines.
C4_OnlyVocabularyInserted ==
    frameLog # <<>> => (StreamTypes \ LastFrame.before) \subseteq AllStatusTimelines

\* C5: a malformed control frame never triggers teardown.  Every return from
\* ReadJSON that is not a transport read failure continues the loop and leaves
\* the scope as it was, a malformed frame leaves the topic set as it was, and
\* the inbound pump cancels the scope only after a transport read failure.
C5_MalformedFrameContinues ==
    /\ [][(rPc = "read" /\ rPc' # "read" /\ rExit' \notin ReadFailures)
            => /\ rPc' \in {"loop", "locked"}
               /\ ctxDone' = ctxDone
               /\ StreamTypes' = StreamTypes
               /\ (rPc' = "locked" => ~Malformed(rMsg'))
               /\ (rPc' = "loop" => /\ frameLog' # <<>>
                                    /\ Malformed(frameLog'[Len(frameLog')].msg))]_vars
    /\ [][(frameLog' # frameLog /\ Malformed(frameLog'[Len(frameLog')].msg))
            => StreamTypes' = StreamTypes /\ rPc' = "loop"]_vars
    /\ [](cancelledBy = "reader" => rPc = "done" /\ rExit \in ReadFailures)

\* C5 witness: a malformed frame has just been handled and the pump is back
\* at the top of its loop with the scope not cancelled
C5_Witness ==
    /\ frameLog # <<>>
    /\ Malformed(LastFrame.msg)
    /\ ~Has(LastFrame.msg, "type")
    /\ rPc = "loop"
    /\ ~ctxDone

\* C9: subscribing is idempotent: after the same accepted subscribe frame has
\* been handled twice in a row the topic set equals the set after the first,
\* and the key is a member.
C9_SubscribeIdempotent ==
    (/\ Len(frameLog) = 2
     /\ IsSubscribe(frameLog[1].msg)
     /\ frameLog[2].msg = frameLog[1].msg)
    => /\ StreamTypes = frameLog[2].before
       /\ UpdateKey(frameLog[2].msg) \in StreamTypes
       /\ Cardinality(StreamTypes) <= Cardinality(frameLog[1].before) + 1

\* C9 witness: the same subscribe frame was handled twice, the first time
\* with the key not yet in the set
C9_Witness ==
    /\ Len(frameLog) = 2
    /\ IsSubscribe(frameLog[1].msg)
    /\ frameLog[2].msg = frameLog[1].msg
    /\ UpdateKey(frameLog[1].msg) \notin frameLog[1].before
    /\ frameLog[1].before # {}

\* C10: a subscribe followed by an unsubscribe with the same stream and list
\* fields leaves no entry for the key and every other key as it was before
\* the subscribe.
C10_SubscribeUnsubscribe ==
    (/\ Len(frameLog) = 2
     /\ IsSubscribe(frameLog[1].msg)
     /\ frameLog[2].msg = [frameLog[1].msg EXCEPT !["type"] = "unsubscribe"])
    => /\ UpdateKey(frameLog[1].msg) \notin StreamTypes
       /\ StreamTypes \ {UpdateKey(frameLog[1].msg)}
            = frameLog[1].before \ {UpdateKey(frameLog[1].msg)}

\* C10 witness: such a pair was handled on a set holding another key of the
\* same stream, which is still there
C10_Witness ==
    /\ Len(frameLog) = 2
    /\ IsSubscribe(frameLog[1].msg)
    /\ frameLog[2].msg = [frameLog[1].msg EXCEPT !["type"] = "unsubscribe"]
    /\ Has(frameLog[1].msg, "list")
    /\ frameLog[1].msg["stream"] \in frameLog[1].before
    /\ frameLog[1].msg["stream"] \in StreamTypes

----------------------------------------------------------------------------
(* Claims about the connection lifecycle, checked under Spec and FairSpec *)

WriteFailures == {"msgErr", "pingErr"}

ReaderRunning == rPc \in {"loop", "read", "locked"}
WriterRunning == wPc \in {"select", "writeMsg", "writePing"}

\* the handler's work for the session has finished: the upgrade failed and
\* StreamGETHandler returned, or handleWSConn returned
SessionWorkFinished ==
    \/ hPc = "returned" /\ hResult = "upgradeError"
    \/ cPc = "done"

\* C1: for a session returned by Open the hangup signal is never closed a
\* second time, and it is closed once the handler's work has finished.
C1_HangupClosedExactlyOnce ==
    /\ hangupCloses <= 1
    /\ (~opened => hangupCloses = 0)
    /\ (SessionWorkFinished => hangupCloses = 1)

\* C1 witness: both pumps reached their own terminal condition, the transport
\* close failed, and handleWSConn has returned
C1_Witness ==
    /\ cPc = "done"
    /\ closeErrLogged
    /\ rExit \in ReadFailures
    /\ wExit \in WriteFailures
    /\ hangupCloses = 1

\* C2 as claimed: in no reachable state is the hangup signal closed while
\* either pump is still running.
C2_ClosedAfterBothPumpsStopped ==
    hangupCloses > 0 => ~ReaderRunning /\ ~WriterRunning

\* C2 amended: the hangup signal is closed either by StreamGETHandler after a
\* failed upgrade, when no pump was ever started, or by handleWSConn after
\* the scope was cancelled by a pump that has stopped and the transport was
\* closed; the other pump may still be running.
C2_ClosedAfterCancelAndClose ==
    hangupCloses > 0 =>
        \/ /\ hResult = "upgradeError"
           /\ cPc = "idle" /\ rPc = "idle" /\ wPc = "idle"
        \/ /\ cPc \in {"stop", "done"}
           /\ ctxDone
           /\ connClosed
           /\ (rPc = "done" \/ wPc = "done")

\* C2 witness: the hangup signal is closed while the inbound pump is still
\* blocked in its read
C2_Witness ==
    /\ hangupCloses = 1
    /\ cPc = "stop"
    /\ wPc = "done"
    /\ rPc = "read"

\* C3: once a pump has reached a terminal condition, eventually both pumps
\* have exited and handleWSConn has returned.
C3_BothPumpsExit ==
    (rExit \in ReadFailures \/ wExit \in WriteFailures)
        ~> (rPc = "done" /\ wPc = "done" /\ cPc = "done")

\* C3 witness: the outbound pump failed on a ping, the inbound pump was
\* unblocked by the transport close, and teardown is complete
C3_Witness ==
    /\ wExit = "pingErr"
    /\ cancelledBy = "writer"
    /\ rPc = "done"
    /\ rExit \in ReadFailures
    /\ cPc = "done"

\* C6: the event frames on the wire are, in order, the first messages the hub
\* enqueued, whatever pings lie between them.
C6_EventsInEnqueueOrder ==
    /\ Len(Events(wire)) <= enq
    /\ \A i \in 1..Len(Events(wire)) : Events(wire)[i] = i

\* C6 witness: two events were written with a ping between them
C6_Witness ==
    /\ Len(wire) = 3
    /\ wire[1] = 1
    /\ wire[2] = Ping
    /\ wire[3] = 2

\* a step that writes a ping frame to the wire
PingWritten == wire' = Append(wire, Ping)

\* C7: while the outbound pump is waiting on a live connection, never more
\* than one keepalive interval has passed since the last frame, and a ping
\* that follows a ping (or the start) comes exactly one interval after it:
\* one ping for each interval without an event.
C7_OnePingPerIdleInterval ==
    /\ []((wPc = "select" /\ ~ctxDone)
            => /\ sinceFrame <= Interval
               /\ (sinceFrame = Interval => tickC = 1))
    /\ [][(PingWritten /\ (wire = <<>> \/ Last(wire) = Ping))
            => sinceFrame = Interval]_vars

\* C7 witness: two intervals passed without an event and two pings were written
C7_Witness ==
    /\ wire = <<Ping, Ping>>
    /\ wPc = "select"
    /\ ~ctxDone
    /\ sinceFrame = 0

\* C8: no ping frame is written during the keepalive interval that follows a
\* successful event write.
C8_NoPingAfterEventWrite ==
    [][(PingWritten /\ wire # <<>> /\ Last(wire) # Ping)
         => sinceFrame >= Interval]_vars

----------------------------------------------------------------------------
(* Claims about the handler, checked under HandlerSpec and Spec *)

\* the handler has called Open
OpenCalled == openArg # Absent

\* the handler has reached the upgrade of the connection
UpgradeAttempted == hPc = "upgrade" \/ hResult \in {"upgraded", "upgradeError"}

\* no pump and no coordinator has been started
NoPumpStarted == cPc = "idle" /\ rPc = "idle" /\ wPc = "idle"

C12_EmptyStreamRejected ==
    req.stream = "" => ~UpgradeAttempted /\ NoPumpStarted

\* the handler wrote an authentication error
AuthFailed == hResult \in {"authorizeError", "unauthorized"}

\* C13: when authentication fails, by the authorizer rejecting the token or,
\* with no token, by the fallback authorization failing, the handler has
\* returned without calling Open, without attempting the upgrade and without
\* starting a pump; nothing of the connection ever exists.
C13_AuthFailureBeforeUpgrade ==
    AuthFailed =>
        /\ hPc = "returned"
        /\ (hResult = "authorizeError" <=> req.token # "")
        /\ ~OpenCalled
        /\ ~opened
        /\ ~UpgradeAttempted
        /\ NoPumpStarted
        /\ ~tickerOn
        /\ hangupCloses = 0
        /\ wire = <<>>

\* C13 witness: a request without a token failed the fallback authorization
C13_Witness ==
    /\ req.token = ""
    /\ hResult = "unauthorized"
    /\ hPc = "returned"

----------------------------------------------------------------------------
(* Claims about the pumps and the coordinator *)

\* C14: a read failure classified as expected (normal closure, going away, no
\* status received) never produces an error-level log entry and every other
\* read failure produces one; either way the read loop has ended and the
\* shared scope is cancelled.
C14_ErrorLogIffNotExpected ==
    rExit \in ReadFailures =>
        /\ rPc = "done"
        /\ ctxDone
        /\ (rExit \in ExpectedCloseCodes => ~rErrLogged)
        /\ (rExit \notin ExpectedCloseCodes => rErrLogged)

\* C15: after the scope is cancelled the coordinator closes the transport,
\* then closes the hangup signal, then stops the keepalive timer, in that
\* order: at each position of the coordinator the earlier steps are done and
\* the later ones are not.  A failed transport close is only logged: the
\* hangup signal is still closed and the timer still stopped.
C15_TeardownOrder ==
    /\ [](cPc \in {"wait", "close"} => ~connClosed /\ hangupCloses = 0 /\ tickerOn)
    /\ [](cPc = "close" => ctxDone)
    /\ [](cPc = "hangup" => ctxDone /\ connClosed /\ hangupCloses = 0 /\ tickerOn)
    /\ [](cPc = "stop" => connClosed /\ hangupCloses = 1 /\ tickerOn)
    /\ [](cPc = "done" => connClosed /\ hangupCloses = 1 /\ ~tickerOn)
    /\ [](closeErrLogged => cPc \in {"hangup", "stop", "done"})
    /\ (closeErrLogged ~> (hangupCloses = 1 /\ ~tickerOn /\ cPc = "done"))

\* C15 witness: the transport close failed and the teardown was completed
C15_Witness ==
    /\ closeErrLogged
    /\ connClosed
    /\ hangupCloses = 1
    /\ ~tickerOn
    /\ cPc = "done"

\* C16: every insert into or removal from the topic set of an open session
\* is made by the inbound pump while it holds the session lock, and the pump
\* holds the lock only across that single insert or delete: never at the top
\* of its loop, never while blocked in a read, never after it has ended.
C16_MutationUnderLock ==
    /\ [][(opened /\ StreamTypes' # StreamTypes)
            => (rLocked /\ rPc = "locked" /\ ~rLocked' /\ rPc' = "loop")]_vars
    /\ [](rLocked <=> rPc = "locked")
    /\ [](rPc \in {"loop", "read", "done"} => ~rLocked)

\* C16 witness: the topic set has been changed under the lock, the lock is
\* released and the pump is blocked in the next read
C16_Witness ==
    /\ opened
    /\ StreamTypes # OpenedTypes(openArg)
    /\ rPc = "read"
    /\ ~rLocked

\* C17: a failed event write or a failed ping write ends the outbound pump's
\* loop and cancels the scope; the failing step writes nothing, resets no
\* timer and puts nothing back in the queue, and no frame is written after
\* it.  The failure is always followed by the transport being closed and the
\* hangup signal being closed.
C17_WriteFailureTearsDown ==
    /\ [](wExit \in WriteFailures => wPc = "done" /\ ctxDone)
    /\ [][(wExit \notin WriteFailures /\ wExit' \in WriteFailures)
            => /\ wire' = wire
               /\ Messages' = Messages
               /\ <<tickerOn, left, tickC>>' = <<tickerOn, left, tickC>>]_vars
    /\ [][(wExit \in WriteFailures) => (wire' = wire /\ wPc' = "done")]_vars
    /\ (wExit \in WriteFailures ~> (connClosed /\ hangupCloses = 1))

\* C17 witness: an event write failed with another event still queued, and
\* the teardown is complete with neither event on the wire
C17_Witness ==
    /\ wExit = "msgErr"
    /\ Messages # <<>>
    /\ Events(wire) = <<>>
    /\ connClosed
    /\ hangupCloses = 1
    /\ cPc = "done"

\* C18: for a control frame that is applied (known stream, type subscribe or
\* unsubscribe) the key inserted or removed is stream ":" list whenever the
\* frame has a list field, the key "stream:" when that field is the empty
\* string, and stream alone only when the frame has no list field; no other
\* key of the topic set is touched.
C18_ListFieldQualifiesKey ==
    (frameLog # <<>> /\ Updates(LastFrame.msg)) =>
        LET msg == LastFrame.msg
            before == LastFrame.before
            key == IF "list" \in DOMAIN msg
                     THEN msg["stream"] \o ":" \o msg["list"]
                     ELSE msg["stream"]
        IN /\ ("list" \notin DOMAIN msg => key = msg["stream"])
           /\ (("list" \in DOMAIN msg /\ msg["list"] = "") => key # msg["stream"])
           /\ ((msg["stream"] = "user" /\ "list" \in DOMAIN msg /\ msg["list"] = "")
                 => key = "user:")
           /\ ((msg["stream"] = "user" /\ "list" \in DOMAIN msg /\ msg["list"] = "x")
                 => key = "user:x")
           /\ (msg["type"] = "subscribe" => StreamTypes = before \cup {key})
           /\ (msg["type"] = "unsubscribe" => StreamTypes = before \ {key})

\* C18 witness: a subscribe with an empty list value was applied to a set
\* without the bare stream: "user:" is in the set and "user" is not
C18_Witness ==
    /\ frameLog # <<>>
    /\ LastFrame.msg = MkMsg("subscribe", "user", "")
    /\ "user:" \in StreamTypes
    /\ "user" \notin StreamTypes

\* C19 as stated: once the scope is cancelled the outbound pump exits at its
\* next select: it pops no further event, takes no tick and writes no frame.
C19_ExitsAtNextSelect ==
    [][(ctxDone /\ wPc = "select")
         => /\ wPc' \in {"select", "done"}
            /\ Len(Messages') >= Len(Messages)
            /\ wire' = wire]_vars

\* C19, amended: at a select with the scope cancelled the outbound pump
\* exits or takes a ready case, one that is ready in that state; it writes no
\* frame once the coordinator has closed the transport; and once the scope
\* is cancelled the pump always exits eventually.
C19_ExitsAfterCancel ==
    /\ [][(ctxDone /\ wPc = "select" /\ wPc' # "select")
            => \/ wPc' = "done" /\ wExit' = "ctx"
               \/ wPc' = "writeMsg" /\ Messages # <<>>
               \/ wPc' = "writePing" /\ tickC = 1]_vars
    /\ [](wLate => ctxDone)
    /\ [][connClosed => wire' = wire]_vars
    /\ (ctxDone ~> wPc = "done")

\* C19 witness: after the inbound pump cancelled the scope the outbound pump
\* took an event at its select, wrote it, and exited at a later select
C19_Witness ==
    /\ cancelledBy = "reader"
    /\ wLate
    /\ wPc = "done"
    /\ wExit = "ctx"
    /\ Events(wire) # <<>>

\* C20: once the upgrade has succeeded the coordinator tears nothing down on
\* its own.  Whenever the transport has been closed by the coordinator or
\* the hangup signal is closed, the scope is cancelled and a pump has left
\* its loop; the scope is cancelled only by a pump that has left its loop;
\* while both pumps are in their loops the transport and the hangup signal
\* are open and the coordinator is waiting.
C20_TeardownOnlyAfterPumpExit ==
    hResult = "upgraded" =>
        /\ ((connClosed \/ hangupCloses > 0 \/ cPc # "wait")
              => (ctxDone /\ (rPc = "done" \/ wPc = "done")))
        /\ (ctxDone => (rPc = "done" \/ wPc = "done"))
        /\ ((ReaderRunning /\ WriterRunning)
              => (~ctxDone /\ ~connClosed /\ hangupCloses = 0 /\ cPc = "wait"))

\* C20 witness: the inbound pump left its loop, the coordinator closed the
\* transport and the hangup signal, and the outbound pump is still in its loop
C20_Witness ==
    /\ hResult = "upgraded"
    /\ rPc = "done"
    /\ WriterRunning
    /\ connClosed
    /\ hangupCloses = 1

====
